---- MODULE Spec2Model ----
(***************************************************************************)
(* A model of the ingestion-and-retrieval core of enterprise-rag-service:  *)
(*   - chunk_text            (src/app/chunker.py)                          *)
(*   - add_chunks, query_chunks (src/vector_store.py)                      *)
(*   - FileParser and its parsers (src/app/file_parser.py)                 *)
(* Python strings are sequences of one-character strings, so that strip,   *)
(* slicing, lower-casing and the chunk_id format are computed, not         *)
(* assumed.                                                                *)
(***************************************************************************)
EXTENDS Integers, Sequences, FiniteSets, TLC

\* chunk_text: its arguments, its locals and its result. windows records the
\* (start, end) of each slice taken at line 13.
VARIABLES c_arg, chunk_size, overlap, text, start, chunks, windows, c_pc, c_ret

\* collection is the Chroma collection (the Index Store), in insertion order.
\* What persist() flushes to disk is read by no operation and is not kept.
\* a_* and ids, docs, embs, metadatas are the arguments and locals of each
\* process's call of add_chunks; a_written is the positions of the collection
\* the call has written. q_* and res are those of query_chunks.
VARIABLES collection,
          a_pc, a_document_id, a_chunks, a_i,
          ids, docs, embs, metadatas, a_ret, a_exc, a_written,
          q_pc, q_document_id, q_top_k, res, q_ret

\* file is the file a FileParser is made for: ext is os.path.splitext of its
\* path, the other fields say what opening and reading it does. parser is
\* the parser the factory made, content_parts and page_num the locals of
\* PdfParser.parse, p_ret and p_exc what the caller gets.
VARIABLES file, p_pc, parser, page_num, content_parts, p_ret, p_exc

chunkVars == <<c_arg, chunk_size, overlap, text, start, chunks, windows, c_pc, c_ret>>

storeVars == <<collection,
               a_pc, a_document_id, a_chunks, a_i,
               ids, docs, embs, metadatas, a_ret, a_exc, a_written,
               q_pc, q_document_id, q_top_k, res, q_ret>>

parseVars == <<file, p_pc, parser, page_num, content_parts, p_ret, p_exc>>

vars == <<chunkVars, storeVars, parseVars>>

\* ------------------------------------------------------------------ bounds
MaxTextLen == 3
MaxChunkSize == 3
MaxOverlap == 3
MaxWindows == 5
MaxStored == 3
MaxChunks == 2
MaxTopK == 2
MaxPages == 2

\* ----------------------------------------------------------- string helpers
Whitespace == {" ", "\n"}

Min(a, b) == IF a < b THEN a ELSE b

RECURSIVE LStrip(_)
LStrip(s) ==
  IF s # <<>> /\ Head(s) \in Whitespace THEN LStrip(Tail(s)) ELSE s

RECURSIVE RStrip(_)
RStrip(s) ==
  IF s # <<>> /\ s[Len(s)] \in Whitespace
  THEN RStrip(SubSeq(s, 1, Len(s) - 1))
  ELSE s

\* str.strip()
Strip(s) == RStrip(LStrip(s))

\* text[a:b] for 0 <= a, b <= len(text): Python's half-open, 0-based slice
Slice(s, a, b) == SubSeq(s, a + 1, b)

RECURSIVE ListsUpTo(_, _)
ListsUpTo(S, n) ==
  IF n = 0 THEN {<<>>}
  ELSE LET shorter == ListsUpTo(S, n - 1)
       IN  shorter \cup {Append(l, x) : l \in shorter, x \in S}

RECURSIVE StringsUpTo(_, _)
StringsUpTo(alphabet, n) ==
  IF n = 0 THEN {<<>>}
  ELSE LET shorter == StringsUpTo(alphabet, n - 1)
       IN  shorter \cup {Append(s, c) : s \in shorter, c \in alphabet}

\* ================================================================ chunk_text
TextAlphabet == {"a", "b", " "}

Texts == StringsUpTo(TextAlphabet, MaxTextLen)

\* before the call
ChunkLocalsInit ==
  /\ text = <<>>
  /\ start = 0
  /\ chunks = <<>>
  /\ windows = <<>>
  /\ c_pc = "call"
  /\ c_ret = <<>>

\* lines 5-10: strip, the early return of [] for an empty text, start = 0
ChunkEnter ==
  /\ c_pc = "call"
  /\ text' = Strip(c_arg)
  /\ IF text' = <<>>
     THEN c_pc' = "done" /\ c_ret' = <<>>
     ELSE c_pc' = "loop" /\ c_ret' = <<>>
  /\ start' = 0
  /\ chunks' = <<>>
  /\ UNCHANGED <<c_arg, chunk_size, overlap, windows, storeVars, parseVars>>

\* line 14-16: the start of the next window
NextStart(end) ==
  IF end - overlap < 0 THEN 0 ELSE end - overlap

\* lines 11-19: one iteration of the while loop. The loop is left only by the
\* break of line 17-18 (then line 19 returns chunks): when the break is not
\* taken start < len(text), so the loop test of line 11 holds again.
ChunkIter ==
  /\ c_pc = "loop"
  /\ start < Len(text)
  /\ Len(chunks) < MaxWindows
  /\ LET end == Min(start + chunk_size, Len(text))
     IN  /\ chunks' = Append(chunks, Slice(text, start, end))
         /\ windows' = Append(windows, <<start, end>>)
         /\ start' = NextStart(end)
         /\ IF start' >= Len(text)
            THEN c_pc' = "done" /\ c_ret' = chunks'
            ELSE c_pc' = "loop" /\ c_ret' = <<>>
  /\ UNCHANGED <<c_arg, chunk_size, overlap, text, storeVars, parseVars>>

\* ================================================== add_chunks, query_chunks
Procs == {1, 2}

\* document ids: one is a proper prefix of the other
DocIds == {<<"a">>, <<"a", "b">>}

\* chunk texts handed to add_chunks: empty, whitespace-only and not blank
ChunkTexts == {<<>>, <<" ">>, <<"a">>, <<"b">>}

ChunkLists == ListsUpTo(ChunkTexts, MaxChunks)

\* the values uuid.uuid4().hex[:8] is drawn from: fixed-width hexadecimal
\* strings (two of width 2 stand for the 16^8 of width 8)
HexSuffixes == {<<"0", "0">>, <<"0", "1">>}

DigitChar == <<"0", "1", "2", "3", "4", "5", "6", "7", "8", "9">>

\* str(i) of a non-negative integer
RECURSIVE Decimal(_)
Decimal(i) ==
  IF i < 10 THEN <<DigitChar[i + 1]>>
  ELSE Decimal(i \div 10) \o <<DigitChar[(i % 10) + 1]>>

\* the chunk_id without the document_id
ChunkId_NoDocument(document_id, i, suffix) ==
  <<"c", "h", "u", "n", "k", "_">> \o Decimal(i) \o <<"_">> \o suffix

\* line 51: f"{document_id}_chunk_{i}_{uuid.uuid4().hex[:8]}"
ChunkId(document_id, i, suffix) ==
  document_id \o <<"_", "c", "h", "u", "n", "k", "_">> \o Decimal(i)
              \o <<"_">> \o suffix

\* the test without its strip: not chunk
IsBlank_EmptyOnly(chunk) == chunk = <<>>

\* line 48: not chunk or not chunk.strip()
IsBlank(chunk) == chunk = <<>> \/ Strip(chunk) = <<>>

\* lines 32-38: the vector of the embedding model for `input`, as a symbol
embed_text(input) == [model |-> "text-embedding-3-small", input |-> input]

\* An optional argument: Python's None is the empty tuple, a value v is <<v>>
NoneValue == <<>>
Some(v) == <<v>>

\* a Chroma query result before any query
EmptyResult == [ids |-> <<>>, documents |-> <<>>, metadatas |-> <<>>]

StoreInit ==
  /\ collection = <<>>
  /\ a_pc = [p \in Procs |-> "idle"]
  /\ a_document_id = [p \in Procs |-> <<>>]
  /\ a_chunks = [p \in Procs |-> <<>>]
  /\ a_i = [p \in Procs |-> 0]
  /\ ids = [p \in Procs |-> <<>>]
  /\ docs = [p \in Procs |-> <<>>]
  /\ embs = [p \in Procs |-> <<>>]
  /\ metadatas = [p \in Procs |-> <<>>]
  /\ a_ret = [p \in Procs |-> 0]
  /\ a_exc = [p \in Procs |-> ""]
  /\ a_written = [p \in Procs |-> {}]
  /\ q_pc = "idle"
  /\ q_document_id = NoneValue
  /\ q_top_k = 0
  /\ res = EmptyResult
  /\ q_ret = <<>>

queryVars == <<q_pc, q_document_id, q_top_k, res, q_ret>>
sharedVars == <<collection>>
localVars == <<ids, docs, embs, metadatas>>

\* the four lists of a call that has ended: its frame is gone
NoLocals(p) ==
  /\ ids' = [ids EXCEPT ![p] = <<>>]
  /\ docs' = [docs EXCEPT ![p] = <<>>]
  /\ embs' = [embs EXCEPT ![p] = <<>>]
  /\ metadatas' = [metadatas EXCEPT ![p] = <<>>]

\* lines 41-45: a call of add_chunks(document_id, chunks), with chunks one of
\* `lists`, and its empty lists
AddCallOf(p, lists) ==
  /\ a_pc[p] = "idle"
  /\ \E d \in DocIds, cs \in lists :
       /\ Len(collection) + Len(cs) <= MaxStored
       /\ a_document_id' = [a_document_id EXCEPT ![p] = d]
       /\ a_chunks' = [a_chunks EXCEPT ![p] = cs]
  /\ a_i' = [a_i EXCEPT ![p] = 0]
  /\ a_pc' = [a_pc EXCEPT ![p] = "loop"]
  /\ UNCHANGED <<sharedVars, localVars, a_ret, a_exc, a_written, queryVars, chunkVars, parseVars>>

AddCall(p) == AddCallOf(p, ChunkLists)

\* lines 47-55: one iteration of the loop over enumerate(chunks), uuid4 drawing
\* one of `suffixes`. The call of embed_text (the embedding service) returns
\* the vector or raises, and the exception leaves add_chunks.
AddIterOf(p, suffixes) ==
  /\ a_pc[p] = "loop"
  /\ a_i[p] < Len(a_chunks[p])
  /\ LET i == a_i[p]
         chunk == a_chunks[p][i + 1]
     IN  \/ /\ IsBlank(chunk)
            /\ a_i' = [a_i EXCEPT ![p] = i + 1]
            /\ UNCHANGED <<localVars, a_pc, a_exc>>
         \/ /\ ~IsBlank(chunk)
            /\ \E suffix \in suffixes :
                 ids' = [ids EXCEPT ![p] =
                           Append(@, ChunkId(a_document_id[p], i, suffix))]
            /\ docs' = [docs EXCEPT ![p] = Append(@, chunk)]
            /\ embs' = [embs EXCEPT ![p] = Append(@, embed_text(chunk))]
            /\ metadatas' = [metadatas EXCEPT ![p] =
                 Append(@, [document_id |-> a_document_id[p],
                            chunk_index |-> i])]
            /\ a_i' = [a_i EXCEPT ![p] = i + 1]
            /\ UNCHANGED <<a_pc, a_exc>>
         \/ /\ ~IsBlank(chunk)
            /\ a_pc' = [a_pc EXCEPT ![p] = "raised"]
            /\ a_exc' = [a_exc EXCEPT ![p] = "embed_text"]
            /\ a_i' = [a_i EXCEPT ![p] = 0]
            /\ NoLocals(p)
  /\ UNCHANGED <<sharedVars, a_document_id, a_chunks, a_ret, a_written,
                 queryVars, chunkVars, parseVars>>

AddIter(p) == AddIterOf(p, HexSuffixes)

\* lines 57-58: the loop is over; nothing retained returns 0
AddLoopEnd(p) ==
  /\ a_pc[p] = "loop"
  /\ a_i[p] = Len(a_chunks[p])
  /\ a_i' = [a_i EXCEPT ![p] = 0]
  /\ IF ids[p] = <<>>
     THEN /\ a_pc' = [a_pc EXCEPT ![p] = "returned"]
          /\ a_ret' = [a_ret EXCEPT ![p] = 0]
     ELSE /\ a_pc' = [a_pc EXCEPT ![p] = "add"]
          /\ UNCHANGED a_ret
  /\ UNCHANGED <<sharedVars, localVars, a_document_id, a_chunks, a_exc,
                 a_written, queryVars, chunkVars, parseVars>>

\* the records collection.add is given: position k of each of the four lists
Records(p) ==
  [k \in 1..Len(ids[p]) |->
     [id |-> ids[p][k], document |-> docs[p][k],
      embedding |-> embs[p][k], metadata |-> metadatas[p][k]]]

\* line 60: collection.add(...) adds the records to the collection, or raises
\* and adds none (the store's add is one logical write)
AddWrite(p) ==
  /\ a_pc[p] = "add"
  /\ \/ /\ collection' = collection \o Records(p)
        /\ a_written' = [a_written EXCEPT ![p] =
                           (Len(collection) + 1)..Len(collection')]
        /\ a_pc' = [a_pc EXCEPT ![p] = "persist"]
        /\ UNCHANGED <<localVars, a_exc>>
     \/ /\ a_pc' = [a_pc EXCEPT ![p] = "raised"]
        /\ a_exc' = [a_exc EXCEPT ![p] = "collection.add"]
        /\ NoLocals(p)
        /\ UNCHANGED <<collection, a_written>>
  /\ UNCHANGED <<a_document_id, a_chunks, a_i, a_ret, queryVars, chunkVars, parseVars>>

\* the count of the chunks given: return len(chunks)
AddResult_ChunksGiven(p) == Len(a_chunks[p])

\* line 62: return len(ids)
AddResult(p) == Len(ids[p])

\* lines 61-62: chroma_client.persist() flushes the collection to disk and the
\* call returns len(ids), or persist raises
AddPersist(p) ==
  /\ a_pc[p] = "persist"
  /\ \/ /\ a_pc' = [a_pc EXCEPT ![p] = "returned"]
        /\ a_ret' = [a_ret EXCEPT ![p] = AddResult(p)]
        /\ UNCHANGED a_exc
     \/ /\ a_pc' = [a_pc EXCEPT ![p] = "raised"]
        /\ a_exc' = [a_exc EXCEPT ![p] = "persist"]
        /\ UNCHANGED a_ret
  /\ NoLocals(p)
  /\ UNCHANGED <<collection, a_document_id, a_chunks, a_i, a_written,
                 queryVars, chunkVars, parseVars>>

\* the caller has the result (or the exception); the process may call again
AddDone(p) ==
  /\ a_pc[p] \in {"returned", "raised"}
  /\ a_pc' = [a_pc EXCEPT ![p] = "idle"]
  /\ a_ret' = [a_ret EXCEPT ![p] = 0]
  /\ a_exc' = [a_exc EXCEPT ![p] = ""]
  /\ a_document_id' = [a_document_id EXCEPT ![p] = <<>>]
  /\ a_chunks' = [a_chunks EXCEPT ![p] = <<>>]
  /\ a_written' = [a_written EXCEPT ![p] = {}]
  /\ UNCHANGED <<sharedVars, localVars, a_i, queryVars, chunkVars, parseVars>>

\* ------------------------------------------------------------- query_chunks
QueryTexts == {<<"a">>}

\* the document_id argument: None, the empty string, a stored document's id
FilterArgs == {NoneValue, Some(<<>>)} \cup {Some(d) : d \in DocIds}

\* Python truthiness of `document_id` (a str or None): neither None nor ""
Truthy(arg) == arg # NoneValue /\ arg[1] # <<>>

\* line 68: {"document_id": document_id} if document_id else None
WhereFilter(document_id) ==
  IF Truthy(document_id) THEN Some([document_id |-> document_id[1]])
  ELSE NoneValue

\* one result too many: n_results=top_k + 1
NResults_OneMore(top_k) == top_k + 1

\* line 72: n_results=top_k
NResults(top_k) == top_k

\* the records of `coll` a where clause selects: exact equality on the
\* metadata field, every record when there is no clause
Matching(coll, where) ==
  {k \in 1..Len(coll) :
     where = NoneValue \/ coll[k].metadata.document_id = where[1].document_id}

\* the sequences of m distinct elements of S
Rankings(S, m) ==
  {r \in [1..m -> S] : \A x, y \in 1..m : x # y => r[x] # r[y]}

\* lines 70-74: collection.query(query_embeddings=[q_emb], n_results,
\* where): the results the Index Store may deliver, one ranking (its own
\* descending similarity to q_emb) of up to n_results matching records, for
\* the one query embedding
CollectionQuery(coll, q_emb, n_results, where) ==
  LET hits == Matching(coll, where)
      m == Min(n_results, Cardinality(hits))
  IN  {[ids |-> <<[k \in 1..m |-> coll[r[k]].id]>>,
        documents |-> <<[k \in 1..m |-> coll[r[k]].document]>>,
        metadatas |-> <<[k \in 1..m |-> coll[r[k]].metadata]>>] :
         r \in Rankings(hits, m)}

\* lines 77-78: docs = res.get("documents") or []; docs[0] if docs else []
ReturnDocs(result) ==
  LET documents == result.documents
  IN  IF documents # <<>> THEN documents[1] ELSE <<>>

\* lines 65-78: query_chunks(query, top_k, document_id). It reads the
\* collection once; embed_text (line 66) returns the vector or raises.
Query ==
  /\ q_pc = "idle"
  /\ \E query \in QueryTexts, top_k \in 1..MaxTopK, document_id \in FilterArgs :
       /\ q_document_id' = document_id
       /\ q_top_k' = top_k
       /\ \/ /\ q_pc' = "raised"
             /\ UNCHANGED <<res, q_ret>>
          \/ /\ res' \in CollectionQuery(collection, embed_text(query),
                           NResults(top_k), WhereFilter(document_id))
             /\ q_ret' = ReturnDocs(res')
             /\ q_pc' = "returned"
  /\ UNCHANGED <<sharedVars, localVars, a_pc, a_document_id, a_chunks, a_i,
                 a_ret, a_exc, a_written, chunkVars, parseVars>>

\* the caller has the evidence (or the exception)
QueryDone ==
  /\ q_pc \in {"returned", "raised"}
  /\ q_pc' = "idle"
  /\ q_document_id' = NoneValue
  /\ q_top_k' = 0
  /\ res' = EmptyResult
  /\ q_ret' = <<>>
  /\ UNCHANGED <<sharedVars, localVars, a_pc, a_document_id, a_chunks, a_i,
                 a_ret, a_exc, a_written, chunkVars, parseVars>>

\* ------------------------------------------------- concurrent ingestion
\* The calls of add_chunks of the processes, one each, interleave. The chunk
\* lists are those over one blank and one non-blank text: the ids written do
\* not depend on which non-blank text a chunk is.
IngestLists == ListsUpTo({<<>>, <<"a">>}, MaxChunks)

IngestCall(p) == AddCallOf(p, IngestLists)

IngestNext ==
  \E p \in Procs :
    \/ IngestCall(p)
    \/ AddIter(p)
    \/ AddLoopEnd(p)
    \/ AddWrite(p)
    \/ AddPersist(p)

\* -------------------------------------------------------------- the server
\* One server process: main.py's handlers (lines 47, 102) are coroutines that
\* call add_chunks and query_chunks without awaiting inside them, so a
\* request's indexing or retrieval runs to its end before the next request
\* starts. What uuid4 draws does not matter to a serial run: it draws "00".
ServeCall == q_pc = "idle" /\ AddCall(1)
ServeIter == q_pc = "idle" /\ AddIterOf(1, {<<"0", "0">>})
ServeLoopEnd == q_pc = "idle" /\ AddLoopEnd(1)
ServeWrite == q_pc = "idle" /\ AddWrite(1)
ServePersist == q_pc = "idle" /\ AddPersist(1)
ServeDone == q_pc = "idle" /\ AddDone(1)
ServeQuery == a_pc[1] = "idle" /\ Query

ServeNext ==
  \/ ServeCall
  \/ ServeIter
  \/ ServeLoopEnd
  \/ ServeWrite
  \/ ServePersist
  \/ ServeDone
  \/ ServeQuery
  \/ QueryDone

\* ================================================================ FileParser
RECURSIVE LStripChar(_, _)
\* s.lstrip(c)
LStripChar(s, c) ==
  IF s # <<>> /\ Head(s) = c THEN LStripChar(Tail(s), c) ELSE s

LowerChar(c) ==
  CASE c = "T" -> "t" [] c = "X" -> "x" [] c = "P" -> "p"
    [] c = "D" -> "d" [] c = "F" -> "f" [] OTHER -> c

\* s.lower()
Lower(s) == [k \in 1..Len(s) |-> LowerChar(s[k])]

RECURSIVE Join(_, _)
\* sep.join(parts)
Join(parts, sep) ==
  IF parts = <<>> THEN <<>>
  ELSE IF Len(parts) = 1 THEN parts[1]
  ELSE parts[1] \o sep \o Join(Tail(parts), sep)

\* lines 102, 106: extension.lower().lstrip(".")
ParserKey(extension) == LStripChar(Lower(extension), ".")

\* lines 113-114: the registry after the two register_parser calls
Registry ==
  (ParserKey(<<"t", "x", "t">>) :> "TxtParser")
    @@ (ParserKey(<<"p", "d", "f">>) :> "PdfParser")

Registered(ext) == ext # <<>> /\ ParserKey(ext) \in DOMAIN Registry

\* what a library call gives: an exception, None, or a text
Raises == [kind |-> "raises", text |-> <<>>]
GivesNone == [kind |-> "none", text |-> <<>>]
Gives(t) == [kind |-> "text", text |-> t]

\* a page: what page.extract_text() gives and what the OCR of the page gives
\* (the OCR runs only when the page has no extracted text)
Pages ==
  {[extract |-> Gives(<<"a">>), ocr |-> Raises]}
    \cup [extract : {Raises, GivesNone, Gives(<<>>), Gives(<<" ">>)},
          ocr : {Raises, Gives(<<>>), Gives(<<"b", "\n">>)}]

NoContent ==
  [read |-> Raises, open_ok |-> FALSE, encrypted |-> FALSE,
   decrypt_ok |-> FALSE, pages_ok |-> FALSE, pages |-> <<>>]

FileOf(ext, exists, content) ==
  [ext |-> ext, exists |-> exists, read |-> content.read,
   open_ok |-> content.open_ok, encrypted |-> content.encrypted,
   decrypt_ok |-> content.decrypt_ok, pages_ok |-> content.pages_ok,
   pages |-> content.pages]

TxtContents ==
  {[NoContent EXCEPT !.read = r] :
     r \in {Raises, Gives(<<>>), Gives(<<"a">>), Gives(<<" ", "a", "\n">>)}}

PdfContents ==
  {NoContent}
    \cup {[NoContent EXCEPT !.open_ok = TRUE, !.encrypted = TRUE]}
    \cup {[NoContent EXCEPT !.open_ok = TRUE, !.encrypted = e,
                            !.decrypt_ok = e]
            : e \in BOOLEAN}
    \cup {[NoContent EXCEPT !.open_ok = TRUE, !.encrypted = e,
                            !.decrypt_ok = e, !.pages_ok = TRUE, !.pages = ps]
            : e \in BOOLEAN, ps \in ListsUpTo(Pages, MaxPages)}

Files ==
  {FileOf(ext, FALSE, NoContent) :
     ext \in {<<>>, <<".", "d", "o", "c", "x">>, <<".", "t", "x", "t">>,
              <<".", "p", "d", "f">>}}
    \cup {FileOf(ext, TRUE, NoContent) :
            ext \in {<<>>, <<".", "d", "o", "c", "x">>}}
    \cup {FileOf(ext, TRUE, c) :
            ext \in {<<".", "t", "x", "t">>, <<".", "T", "X", "T">>},
            c \in TxtContents}
    \cup {FileOf(ext, TRUE, c) :
            ext \in {<<".", "p", "d", "f">>, <<".", "P", "d", "f">>},
            c \in PdfContents}

NoFile == FileOf(<<>>, FALSE, NoContent)

\* before FileParser(filepath)
ParseLocalsInit ==
  /\ p_pc = "new"
  /\ parser = ""
  /\ page_num = 0
  /\ content_parts = <<>>
  /\ p_ret = <<>>
  /\ p_exc = ""

\* lines 121-129 and 105-110: FileParser(filepath): _get_parser raises ValueError
\* for a path with no extension, get_parser for an extension with no parser
Construct ==
  /\ p_pc = "new"
  /\ IF file.ext = <<>> \/ ParserKey(file.ext) \notin DOMAIN Registry
     THEN p_pc' = "raised" /\ p_exc' = "ValueError" /\ UNCHANGED parser
     ELSE /\ p_pc' = "constructed"
          /\ parser' = Registry[ParserKey(file.ext)]
          /\ UNCHANGED p_exc
  /\ UNCHANGED <<file, page_num, content_parts, p_ret, chunkVars, storeVars>>

\* lines 132-133: parse() of a path that does not exist
ParseMissing ==
  /\ p_pc = "constructed"
  /\ ~file.exists
  /\ p_pc' = "raised"
  /\ p_exc' = "FileNotFoundError"
  /\ UNCHANGED <<file, parser, page_num, content_parts, p_ret, chunkVars, storeVars>>

\* TxtParser.parse without its try: the exception of the read leaves it
TxtOutcome_Propagates(f) ==
  IF f.read.kind = "raises" THEN [exc |-> "OSError", ret |-> <<>>]
  ELSE [exc |-> "", ret |-> f.read.text]

\* lines 29-37: TxtParser.parse: the text read, "" when reading raises
TxtOutcome(f) ==
  IF f.read.kind = "raises" THEN [exc |-> "", ret |-> <<>>]
  ELSE [exc |-> "", ret |-> f.read.text]

\* line 134 with TxtParser
TxtParse ==
  /\ p_pc = "constructed"
  /\ file.exists
  /\ parser = "TxtParser"
  /\ LET out == TxtOutcome(file)
     IN  /\ p_exc' = out.exc
         /\ p_ret' = out.ret
         /\ p_pc' = IF out.exc = "" THEN "done" ELSE "raised"
  /\ UNCHANGED <<file, parser, page_num, content_parts, chunkVars, storeVars>>

\* lines 52-58: a PDF that is encrypted and whose decrypt("") raises gives ""
DecryptFails(f) == f.encrypted /\ ~f.decrypt_ok

\* lines 45-59 and 76-78: PdfParser.parse up to the loop: open and PdfReader,
\* decrypt, len(reader.pages); an exception of any of them returns ""
PdfOpen ==
  /\ p_pc = "constructed"
  /\ file.exists
  /\ parser = "PdfParser"
  /\ content_parts' = <<>>
  /\ page_num' = 0
  /\ IF ~file.open_ok \/ DecryptFails(file) \/ ~file.pages_ok
     THEN p_pc' = "done" /\ p_ret' = <<>>
     ELSE p_pc' = "pages" /\ UNCHANGED p_ret
  /\ UNCHANGED <<file, parser, p_exc, chunkVars, storeVars>>

\* lines 80-91: _ocr_page: the text of the OCR, "" when it gives none or raises
OcrPage(page) ==
  IF page.ocr.kind = "text" THEN page.ocr.text ELSE <<>>

\* lines 60-69: the text of a page: extract_text() or "" (also when it
\* raises), the OCR of the page when that is blank
PageText(page) ==
  LET page_text == IF page.extract.kind = "text" THEN page.extract.text
                   ELSE <<>>
  IN  IF Strip(page_text) = <<>> THEN OcrPage(page) ELSE page_text

\* lines 59-71: one iteration of the loop over the pages
PdfPage ==
  /\ p_pc = "pages"
  /\ page_num < Len(file.pages)
  /\ content_parts' = Append(content_parts, PageText(file.pages[page_num + 1]))
  /\ page_num' = page_num + 1
  /\ UNCHANGED <<file, p_pc, parser, p_ret, p_exc, chunkVars, storeVars>>

\* line 74: return "\n".join(content_parts).strip()
PdfJoin ==
  /\ p_pc = "pages"
  /\ page_num = Len(file.pages)
  /\ p_ret' = Strip(Join(content_parts, <<"\n">>))
  /\ p_pc' = "done"
  /\ UNCHANGED <<file, parser, page_num, content_parts, p_exc, chunkVars, storeVars>>

ParseNext ==
  \/ Construct
  \/ ParseMissing
  \/ TxtParse
  \/ PdfOpen
  \/ PdfPage
  \/ PdfJoin

\* ============================================================ specifications
\* chunk_text on every text and configuration of the bounds
ChunkSpecInit ==
  /\ c_arg \in Texts
  /\ chunk_size \in 1..MaxChunkSize
  /\ overlap \in 0..MaxOverlap
  /\ ChunkLocalsInit
  /\ StoreInit
  /\ ParseLocalsInit
  /\ file = NoFile

ChunkNext == ChunkEnter \/ ChunkIter

ChunkSpec == ChunkSpecInit /\ [][ChunkNext]_vars

\* no call of chunk_text under way
ChunkIdle ==
  /\ c_arg = <<>>
  /\ chunk_size = 1
  /\ overlap = 0
  /\ ChunkLocalsInit

StoreSpecInit ==
  /\ ChunkIdle
  /\ StoreInit
  /\ ParseLocalsInit
  /\ file = NoFile

\* concurrent calls of add_chunks
IngestSpec == StoreSpecInit /\ [][IngestNext]_vars

\* the server: indexing and retrieval requests, one at a time
ServeSpec == StoreSpecInit /\ [][ServeNext]_vars

\* FileParser(file).parse() on every file of the bounds
ParseSpecInit ==
  /\ ChunkIdle
  /\ StoreInit
  /\ ParseLocalsInit
  /\ file \in Files

ParseSpec == ParseSpecInit /\ [][ParseNext]_vars

\* ==================================================================== claims
ValidConfig == chunk_size >= 1 /\ 0 <= overlap /\ overlap < chunk_size

\* The reference windowing of C3: windows from `from`, each next one starting
\* at (end of previous - overlap) clamped to 0, none after the one ending at n.
RECURSIVE RefWindows(_, _, _, _)
RefWindows(n, size, ov, from) ==
  LET end == Min(from + size, n)
      nxt == IF end - ov < 0 THEN 0 ELSE end - ov
  IN  IF end >= n THEN <<(<<from, end>>)>>
      ELSE <<(<<from, end>>)>> \o RefWindows(n, size, ov, nxt)

IsPrefix(s, t) == Len(s) <= Len(t) /\ s = SubSeq(t, 1, Len(s))

\* C1: for a non-empty trimmed text and a valid configuration the loop stops
\* once the window that reaches the end of the text has been emitted: no
\* state has emitted that window and is still in the loop.
C1_StopsAfterFinalWindow ==
  (ValidConfig /\ windows # <<>> /\ windows[Len(windows)][2] = Len(text))
    => c_pc = "done"

\* C2: a call with overlap >= chunk_size (shown on the texts that are not
\* empty after trimming) ends in InvalidConfiguration before any chunk is
\* produced: the call is in the raised state, never in the loop and never
\* done with a list, and has emitted no chunk.
C2_RejectsInvalidConfig ==
  (overlap >= chunk_size /\ c_pc # "call" /\ Strip(c_arg) # <<>>)
    => (c_pc = "raised" /\ chunks = <<>>)

\* C3: for a non-empty trimmed text and overlap < chunk_size the emitted
\* windows are, at every moment, a prefix of the reference windowing, and the
\* returned list is exactly the reference windowing.
C3_ExactlyReferenceWindows ==
  (ValidConfig /\ c_pc # "call" /\ text # <<>>)
    => LET ref == RefWindows(Len(text), chunk_size, overlap, 0)
       IN  /\ IsPrefix(windows, ref)
           /\ \A k \in 1..Len(windows) :
                chunks[k] = Slice(text, windows[k][1], windows[k][2])
           /\ (c_pc = "done" => windows = ref)


\* the records of the collection at the positions S
At(S) == {collection[k] : k \in S}

\* how many chunks of a list are not blank
RECURSIVE NonBlank(_)
NonBlank(cs) ==
  IF cs = <<>> THEN 0
  ELSE (IF Strip(Head(cs)) = <<>> THEN 0 ELSE 1) + NonBlank(Tail(cs))

\* C4: a call of add_chunks that ends in an error (of embed_text, of
\* collection.add or of persist) has left none of its records in the
\* collection: the collection has records of a call only when the call
\* returns a count.
C4_FailedCallLeavesNothing ==
  \A p \in Procs : a_pc[p] = "raised" => a_written[p] = {}

\* C5: no two records of the collection share a chunk_id, be they of one
\* call or of calls that ingest different documents.
C5_ChunkIdsDistinct ==
  \A i, j \in 1..Len(collection) :
    (/\ i < j
     /\ \/ collection[i].metadata.document_id
             # collection[j].metadata.document_id
        \/ \E p \in Procs : {i, j} \subseteq a_written[p])
      => collection[i].id # collection[j].id

\* the last n characters of a string
Last(s, n) == SubSeq(s, Len(s) - n + 1, Len(s))

\* two concurrent calls for different documents have both written a record
\* with the same chunk index and the same random suffix
C5_Witness ==
  \E i, j \in 1..Len(collection) :
    /\ i < j
    /\ collection[i].metadata.document_id # collection[j].metadata.document_id
    /\ collection[i].metadata.chunk_index = collection[j].metadata.chunk_index
    /\ Last(collection[i].id, 2) = Last(collection[j].id, 2)

\* C7: every record of the collection has a text that is not empty after
\* trimming, and no blank chunk has been embedded.
C7_NoBlankRecord ==
  /\ \A k \in 1..Len(collection) : Strip(collection[k].document) # <<>>
  /\ \A p \in Procs : \A k \in 1..Len(embs[p]) :
       Strip(embs[p][k].input) # <<>>

\* a call given an empty chunk, a whitespace-only chunk or both next to a
\* chunk with text has written to the collection
C7_Witness ==
  \E p \in Procs :
    /\ a_written[p] # {}
    /\ \E k \in 1..Len(a_chunks[p]) :
         a_chunks[p][k] # <<>> /\ Strip(a_chunks[p][k]) = <<>>

\* C8: a call that returns, returns the number of records it has put in the
\* collection, which is the number of its chunks that are not blank; these
\* records carry its document_id; a call whose chunks are all blank (the
\* chunks of an empty extracted text are none) returns 0 and has put none.
C8_ReturnsCountPersisted ==
  \A p \in Procs :
    a_pc[p] = "returned" =>
      /\ a_ret[p] = Cardinality(a_written[p])
      /\ a_written[p] \subseteq 1..Len(collection)
      /\ a_ret[p] = NonBlank(a_chunks[p])
      /\ \A r \in At(a_written[p]) :
           r.metadata.document_id = a_document_id[p]
      /\ (NonBlank(a_chunks[p]) = 0 => a_ret[p] = 0 /\ a_written[p] = {})

\* a call with a blank chunk and a chunk with text has returned its count
C8_Witness ==
  \E p \in Procs :
    /\ a_pc[p] = "returned"
    /\ a_ret[p] >= 1
    /\ a_ret[p] < Len(a_chunks[p])

\* C6: a query with a document_id that is not None returns only texts of
\* records whose metadata document_id is that document_id.
C6_FilterIsExact ==
  (q_pc = "returned" /\ q_document_id # NoneValue) =>
    \A j \in 1..Len(q_ret) :
      \E k \in 1..Len(collection) :
        /\ collection[k].id = res.ids[1][j]
        /\ collection[k].document = q_ret[j]
        /\ collection[k].metadata.document_id = q_document_id[1]

NoText(outcome) == outcome.kind # "text" \/ Strip(outcome.text) = <<>>

CannotExtract(f) ==
  \/ ParserKey(f.ext) = <<"t", "x", "t">> /\ f.read.kind = "raises"
  \/ /\ ParserKey(f.ext) = <<"p", "d", "f">>
     /\ \/ ~f.open_ok
        \/ f.encrypted /\ ~f.decrypt_ok
        \/ ~f.pages_ok
        \/ \A k \in 1..Len(f.pages) :
             NoText(f.pages[k].extract) /\ NoText(f.pages[k].ocr)

Finished == p_pc \in {"done", "raised"}

\* C10 as stated: for every file there is, of a format that has no parser or
\* of one that has but whose text cannot be extracted, FileParser(file).parse()
\* returns "" and does not raise.
C10_NeverRaises ==
  (Finished /\ file.exists /\ (~Registered(file.ext) \/ CannotExtract(file)))
    => (p_pc = "done" /\ p_ret = <<>>)

\* C10 amended: for every file there is whose extension (in any case) has a
\* registered parser and whose text cannot be extracted, parse() returns ""
\* and does not raise, and parse() of no such file there is raises; the
\* constructor raises ValueError for a path with no extension or with one
\* that has no parser, and parse() raises FileNotFoundError for a path that
\* does not exist.
C10_RecoversRegisteredFormats ==
  Finished =>
    /\ (Registered(file.ext) /\ file.exists) => p_pc = "done"
    /\ (Registered(file.ext) /\ file.exists /\ CannotExtract(file))
         => p_ret = <<>>
    /\ ~Registered(file.ext) => (p_pc = "raised" /\ p_exc = "ValueError")
    /\ (Registered(file.ext) /\ ~file.exists)
         => (p_pc = "raised" /\ p_exc = "FileNotFoundError")

\* a PDF with pages none of which gives text by extract_text or OCR, or a
\* text file whose read raises, has been parsed
C10_Witness ==
  /\ p_pc = "done"
  /\ file.exists
  /\ CannotExtract(file)
  /\ \/ parser = "TxtParser"
     \/ parser = "PdfParser" /\ file.pages_ok /\ Len(file.pages) >= 1

====
